---- MODULE Spec2Model ----
(***************************************************************************)
(* Pagination operators of rxjs-supporters: the cursor tracker             *)
(* (useScrolling) and the load-more engine (switchLoadMore), and the        *)
(* loading-flag operator (onLoading).                                      *)
(*                                                                         *)
(* A step of the model is one synchronous delivery of the reactive chain:  *)
(* a descriptor travelling through tap -> filter -> switchMap, a           *)
(* notification of a fetch observable, or an event of reset$ / scroll$.    *)
(***************************************************************************)
EXTENDS Integers, Sequences, FiniteSets, TLC

\* ------------------------------------------------------------------ bounds
MaxPage == 3      \* page numbers of descriptors given to the engine: 1..MaxPage
MaxSize == 2      \* page sizes: 0..MaxSize
MaxDesc == 2      \* descriptors delivered to one engine instance (Spec)
MaxSeq  == 3      \* descriptors delivered to one engine instance (SequentialSpec)
MaxEv   == 4      \* reset/scroll events delivered to one tracker instance
MaxPipe == 3      \* reset/scroll events delivered to the composed pipeline
MaxSubs == 2      \* subscriptions to one observable built with onLoading
MaxVals == 2      \* values emitted by the observable wrapped by onLoading

VARIABLES
  \* ---- switchLoadMore (closure state, src/rxjs.ts 108-110)
  usePadNil,      \* second argument of switchLoadMore
  defaultItems,   \* padding template of the current epoch
  data,           \* the buffer
  prevPage,       \* page of the last descriptor seen, Infinity at first
  \* ---- switchMap / subscriber state of the engine's output
  fst,            \* fetch table: id -> [size, len, st, n]
  emissions,      \* sequence of the arrays delivered to the subscriber
  status,         \* "live" | "errored" | "closed": state of the output observable
  \* ---- bookkeeping of the run (not program state)
  epoch,          \* number of epoch starts seen (page <= prevPage)
  superseded,     \* fetches that were unresolved when a later one was admitted
  nDesc,          \* descriptors delivered so far
  \* ---- useScrolling (closure state, src/rxjs.ts 79-85)
  startPage, size, page,
  params,         \* latest value of reset$ held by combineLatest
  hasReset, hasScroll,  \* combineLatest: which sources have emitted
  out,            \* descriptors emitted by useScrolling
  epochOut,       \* page fields of the descriptors emitted since the last reset
  upstream,       \* "open" | "errored" | "closed": subscription to reset$ and scroll$
  nEv,            \* events delivered so far
  \* ---- onLoading (src/rxjs.ts 21-35, src/unnamed/part_000 3-12)
  withTap,        \* TRUE: the operator of rxjs.ts, FALSE: the one of part_000
  applied,        \* the operator function has been called with the observable
  sbjLog,         \* values pushed to the subject, in order
  subs,           \* state of each subscription to the returned observable
  nVal            \* values emitted so far

engineVars  == <<usePadNil, defaultItems, data, prevPage, fst, emissions,
                 status, epoch, superseded, nDesc>>
trackerVars == <<startPage, size, page, params, hasReset, hasScroll, out,
                 epochOut, upstream, nEv>>
loadingVars == <<withTap, applied, sbjLog, subs, nVal>>
vars == <<engineVars, trackerVars, loadingVars>>

\* ------------------------------------------------------------ util.ts
\* The placeholder (undefined).  Items are records [f, i]; f is the fetch
\* that produced the item, so the placeholder is the record of no fetch.
Nil == [f |-> <<0, 0>>, i |-> 0]

notNil(value) == value # Nil

\* ------------------------------------------------------------ helpers
\* +Infinity, the initial prevPage: every page compares <= to it.
Infinity == -1

PageLeq(pg, prev) == prev = Infinity \/ pg <= prev

\* JavaScript truthiness of a number (the model has no NaN).
Truthy(n) == n # 0

\* Array.from({ length: n }, () => undefined)
ArrayFromNil(n) == [i \in 1..n |-> Nil]

\* The page delivered by the fetch of descriptor id when it succeeds with n
\* items: n fresh values of D, tagged with the fetch they come from.
Res(id, n) == [i \in 1..n |-> [f |-> id, i |-> i]]

\* { page, size, ...params }: later properties overwrite earlier ones.
SpreadOver(base, p) ==
  [k \in (DOMAIN base) \cup (DOMAIN p) |-> IF k \in DOMAIN p THEN p[k] ELSE base[k]]

Last(s) == s[Len(s)]

\* ------------------------------------------------------------ switchLoadMore
\* tap, lines 113-123: the buffer state after the epoch check.
IsEpochStart(p, prev) == PageLeq(p.page, prev)

TapDefaultItems(p, pad, prev, di) ==
  IF IsEpochStart(p, prev)
  THEN IF pad /\ Truthy(p.size) THEN ArrayFromNil(p.size) ELSE <<>>
  ELSE di

\* Variant whose epoch start leaves the buffer as it was.
TapDataKeepsBuffer(p, pad, prev, di, d) == d

TapData(p, pad, prev, di, d) ==
  IF IsEpochStart(p, prev) THEN TapDefaultItems(p, pad, prev, di) ELSE d

\* Variant of the filter that forgets the modulo test.
AdmitsAnyLength(p, d) == Truthy(p.size)

\* filter, lines 124-126.
Admits(p, d) == Truthy(p.size) /\ Len(d) % p.size = 0

\* Variant of the map callback that keeps the placeholders.
AccumulateKeepingNil(d, res) == d \o res

\* map callback, lines 131-134.
Accumulate(d, res) == SelectSeq(d, notNil) \o res

\* catchError handler, line 136: the replacement observable of([]).
ErrorReplacement == << <<>> >>

\* Variant without the catchError: the error reaches the output observable.
NoCatchError(s) == "errored"

\* catchError sits on the inner observable (line 136): the error of a fetch is
\* replaced there and never reaches the output observable.
AfterCatchError(s) == s

\* Variant whose handler also clears the buffer.
DataClearedOnError(d) == <<>>

\* The handler leaves the closure's data alone.
DataAfterError(d) == d

\* Variant with the arguments of merge swapped.
MergeFetchFirst(snapshot, fetched) == fetched \o <<snapshot>>

\* merge(of(data), loadMoreFn(v)...): of(data) is subscribed first, so the
\* snapshot precedes anything the fetch delivers, also synchronously.
MergeOrder(snapshot, fetched) == <<snapshot>> \o fetched

\* Variant with mergeMap: earlier inner observables stay subscribed.
MergeAll(f) == f

\* switchMap: subscribing to a new inner observable unsubscribes the old one.
SwitchTo(f) ==
  [x \in DOMAIN f |-> IF f[x].st = "pending" THEN [f[x] EXCEPT !.st = "cancelled"] ELSE f[x]]

\* An inner subscriber receives notifications only while subscribed.
Subscribed(f, id) == f[id].st = "pending"

InFlight(f) == {x \in DOMAIN f : f[x].st \in {"pending", "cancelled"}}

Descriptors == [page : 1..MaxPage, size : 0..MaxSize]

\* The lengths a page fetched for a descriptor of size sz can have: a full
\* page, a short page or an empty one.
PageLengths(sz) == 0..sz

\* What the fetch observable does during its subscription inside merge:
\* nothing yet, one array of n items, or an error.
Settled(sz) == {[k |-> "fail", n |-> 0]} \cup [k : {"ok"}, n : PageLengths(sz)]

SyncOutcomes(sz) == {[k |-> "async", n |-> 0]} \cup Settled(sz)

\* The id of a fetch: within one epoch pages strictly increase (a page that
\* does not increase starts a new epoch), so <<epoch, page>> names one
\* admitted descriptor.
FetchId(ep, p) == <<ep, p.page>>

\* One descriptor p delivered by the source observable, lines 113-137.
\* o is what the fetch observable does while merge subscribes to it.
EngineStep(p, o) ==
  /\ status = "live"
  /\ LET start == IsEpochStart(p, prevPage)
         d1    == TapData(p, usePadNil, prevPage, defaultItems, data)
         ep    == IF start THEN epoch + 1 ELSE epoch
         id    == FetchId(ep, p)
         d2    == IF o.k = "ok" THEN Accumulate(d1, Res(id, o.n))
                  ELSE IF o.k = "fail" THEN DataAfterError(d1) ELSE d1
         got   == IF o.k = "ok" THEN <<d2>>
                  ELSE IF o.k = "fail" THEN ErrorReplacement ELSE <<>>
         st    == IF o.k = "ok" THEN "ok"
                  ELSE IF o.k = "fail" THEN "failed" ELSE "pending"
     IN /\ defaultItems' = TapDefaultItems(p, usePadNil, prevPage, defaultItems)
        /\ prevPage' = p.page
        /\ epoch' = ep
        /\ nDesc' = nDesc + 1
        /\ IF Admits(p, d1)
           THEN /\ fst' = (id :> [size |-> p.size, len |-> Len(d1), st |-> st, n |-> o.n])
                          @@ SwitchTo(fst)
                /\ emissions' = emissions \o MergeOrder(d1, got)
                /\ data' = d2
                /\ superseded' = superseded \cup InFlight(fst)
           ELSE /\ o.k = "async"
                /\ data' = d1
                /\ UNCHANGED <<fst, emissions, superseded>>
        /\ status' = IF Admits(p, d1) /\ o.k = "fail" THEN AfterCatchError(status)
                      ELSE status
  /\ UNCHANGED usePadNil

\* The same with a source other than useScrolling.
DescriptorStep(p, o) == EngineStep(p, o) /\ UNCHANGED <<trackerVars, loadingVars>>

Descriptor(p, o) == nDesc < MaxDesc /\ DescriptorStep(p, o)

\* A descriptor of a source that stamps every descriptor with one size (as
\* useScrolling does), with a fetch that, when the descriptor is admitted,
\* settles while merge subscribes to it.
SeqDescriptor(p, o) ==
  /\ nDesc < MaxSeq
  /\ p.size = size
  /\ Admits(p, TapData(p, usePadNil, prevPage, defaultItems, data)) => o.k # "async"
  /\ DescriptorStep(p, o)

\* The fetch observable of id delivers its page of n items (lines 130-135).
\* A subscriber that was unsubscribed receives nothing: the page is dropped.
FetchNext(id, n) ==
  /\ id \in InFlight(fst)
  /\ IF Subscribed(fst, id)
     THEN /\ data' = Accumulate(data, Res(id, n))
          /\ emissions' = Append(emissions, data')
          /\ fst' = [fst EXCEPT ![id].st = "ok", ![id].n = n]
     ELSE /\ fst' = [fst EXCEPT ![id].st = "dropped"]
          /\ UNCHANGED <<data, emissions>>
  /\ UNCHANGED <<usePadNil, defaultItems, prevPage, status, epoch, superseded,
                 nDesc, trackerVars, loadingVars>>

\* The fetch observable of id errors (line 136).
FetchError(id) ==
  /\ id \in InFlight(fst)
  /\ IF Subscribed(fst, id)
     THEN /\ data' = DataAfterError(data)
          /\ emissions' = emissions \o ErrorReplacement
          /\ fst' = [fst EXCEPT ![id].st = "failed"]
          /\ status' = AfterCatchError(status)
     ELSE /\ fst' = [fst EXCEPT ![id].st = "dropped"]
          /\ UNCHANGED <<data, emissions, status>>
  /\ UNCHANGED <<usePadNil, defaultItems, prevPage, epoch, superseded,
                 nDesc, trackerVars, loadingVars>>

\* ------------------------------------------------------------ useScrolling
EmptyPayload == [k \in {} |-> 0]

\* Values of reset$: plain payloads, and payloads that have a field named
\* page or size themselves.
Payloads ==
  {EmptyPayload, [q |-> 1], [q |-> 2], [q |-> 1, page |-> 3], [q |-> 2, size |-> 1]}

StartPages == {1, 2}

\* Variant of the map that leaves the payload out of the descriptor.
MakeDescriptorBare(pg, sz, p) == [page |-> pg, size |-> sz]

\* map, line 90.
MakeDescriptor(pg, sz, p) == SpreadOver([page |-> pg, size |-> sz], p)

\* reset$ emits v: tap (line 87), then combineLatest, map and tap (90-91).
ResetTracker(v) ==
  /\ upstream = "open"
  /\ nEv' = nEv + 1
  /\ params' = v
  /\ hasReset' = TRUE
  /\ IF hasScroll
     THEN /\ out' = Append(out, MakeDescriptor(startPage, size, v))
          /\ epochOut' = <<MakeDescriptor(startPage, size, v).page>>
          /\ page' = startPage + 1
     ELSE /\ epochOut' = <<>>
          /\ page' = startPage
          /\ UNCHANGED out
  /\ UNCHANGED <<startPage, size, hasScroll, upstream>>

\* The same with no subscriber but the recorder out.
Reset(v) == nEv < MaxEv /\ ResetTracker(v) /\ UNCHANGED <<engineVars, loadingVars>>

\* scroll$ emits: combineLatest, map and tap (lines 88-91).
ScrollTracker ==
  /\ upstream = "open"
  /\ nEv' = nEv + 1
  /\ hasScroll' = TRUE
  /\ IF hasReset
     THEN /\ out' = Append(out, MakeDescriptor(page, size, params))
          /\ epochOut' = Append(epochOut, MakeDescriptor(page, size, params).page)
          /\ page' = page + 1
     ELSE UNCHANGED <<out, epochOut, page>>
  /\ UNCHANGED <<startPage, size, params, hasReset, upstream>>

Scroll == nEv < MaxEv /\ ScrollTracker /\ UNCHANGED <<engineVars, loadingVars>>

\* ------------------------------------------------------------ specifications
InitEngine ==
  /\ defaultItems = <<>>
  /\ data = <<>>
  /\ prevPage = Infinity
  /\ fst = <<>>
  /\ emissions = <<>>
  /\ status = "live"
  /\ epoch = 0
  /\ superseded = {}
  /\ nDesc = 0

InitTracker ==
  /\ page = startPage
  /\ params = EmptyPayload
  /\ hasReset = FALSE
  /\ hasScroll = FALSE
  /\ out = <<>>
  /\ epochOut = <<>>
  /\ upstream = "open"
  /\ nEv = 0

\* No observable has been built with onLoading.
InitLoading ==
  /\ withTap = TRUE
  /\ applied = FALSE
  /\ sbjLog = <<>>
  /\ subs = <<>>
  /\ nVal = 0

\* The engine alone, fed with arbitrary descriptors.
Init ==
  /\ usePadNil \in BOOLEAN
  /\ InitEngine
  /\ startPage = 1
  /\ size = 0
  /\ InitTracker
  /\ InitLoading

Next ==
  \/ \E p \in Descriptors : \E o \in SyncOutcomes(p.size) : Descriptor(p, o)
  \/ \E id \in DOMAIN fst : \E n \in PageLengths(fst[id].size) : FetchNext(id, n)
  \/ \E id \in DOMAIN fst : FetchError(id)

Spec == Init /\ [][Next]_vars

\* The engine fed one descriptor at a time: every descriptor carries the same
\* size and its fetch has settled before the next descriptor arrives.
SequentialInit ==
  /\ usePadNil \in BOOLEAN
  /\ InitEngine
  /\ startPage = 1
  /\ size \in 1..MaxSize
  /\ InitTracker
  /\ InitLoading

SequentialNext ==
  \E p \in Descriptors : \E o \in SyncOutcomes(p.size) : SeqDescriptor(p, o)

SequentialSpec == SequentialInit /\ [][SequentialNext]_vars

\* The tracker alone.
TrackerInit ==
  /\ usePadNil = TRUE
  /\ InitEngine
  /\ startPage \in StartPages
  /\ size \in 0..MaxSize
  /\ InitTracker
  /\ InitLoading

TrackerNext ==
  \/ \E v \in Payloads : Reset(v)
  \/ Scroll

TrackerSpec == TrackerInit /\ [][TrackerNext]_vars

\* ------------------------------------------------- useScrolling -> switchLoadMore
\* The composition useScrolling(reset$, scroll$, size).pipe(switchLoadMore(fn)):
\* a descriptor emitted by the tracker is delivered to the engine within the
\* same synchronous step.
PipePayloads == {[q |-> 1], [q |-> 1, page |-> 3], [q |-> 2, size |-> 0]}

\* The fetch observable is asynchronous: it settles in a later step.
Pending == [k |-> "async", n |-> 0]

PipeReset(v) ==
  /\ nEv < MaxPipe
  /\ ResetTracker(v)
  /\ IF hasScroll
     THEN EngineStep(MakeDescriptor(startPage, size, v), Pending)
     ELSE status = "live" /\ UNCHANGED engineVars
  /\ UNCHANGED loadingVars

PipeScroll ==
  /\ nEv < MaxPipe
  /\ ScrollTracker
  /\ IF hasReset
     THEN EngineStep(MakeDescriptor(page, size, params), Pending)
     ELSE status = "live" /\ UNCHANGED engineVars
  /\ UNCHANGED loadingVars

\* Variant in which the inner subscription outlives the outer one.
TeardownLeaks(f) == f

\* Unsubscription of the output subscriber reaches the inner subscriber of
\* switchMap (lines 127-137): the fetch in flight is unsubscribed.
Teardown(f) ==
  [x \in DOMAIN f |-> IF f[x].st = "pending" THEN [f[x] EXCEPT !.st = "cancelled"] ELSE f[x]]

\* Variant with a catchError on the outer pipe.
SourceErrorCaught(s) == s

\* No operator of lines 86-92 and 111-138 handles an error of the source:
\* the catchError of line 136 sits on the inner observable only.
AfterSourceError(s) == "errored"

\* reset$ or scroll$ errors: combineLatest forwards the error, and so do
\* map, tap, filter and switchMap; the erroring subscriber chain is torn down.
InputError ==
  /\ upstream = "open"
  /\ status = "live"
  /\ upstream' = "errored"
  /\ status' = AfterSourceError(status)
  /\ fst' = Teardown(fst)
  /\ UNCHANGED <<usePadNil, defaultItems, data, prevPage, emissions, epoch,
                 superseded, nDesc>>
  /\ UNCHANGED <<startPage, size, page, params, hasReset, hasScroll, out,
                 epochOut, nEv, loadingVars>>

\* The subscriber of the output unsubscribes.
Unsubscribe ==
  /\ upstream = "open"
  /\ status = "live"
  /\ upstream' = "closed"
  /\ status' = "closed"
  /\ fst' = Teardown(fst)
  /\ UNCHANGED <<usePadNil, defaultItems, data, prevPage, emissions, epoch,
                 superseded, nDesc>>
  /\ UNCHANGED <<startPage, size, page, params, hasReset, hasScroll, out,
                 epochOut, nEv, loadingVars>>

PipelineInit ==
  /\ usePadNil \in BOOLEAN
  /\ InitEngine
  /\ startPage = 1
  /\ size \in 1..MaxSize
  /\ InitTracker
  /\ InitLoading

PipelineNext ==
  \/ \E v \in PipePayloads : PipeReset(v)
  \/ PipeScroll
  \/ \E id \in DOMAIN fst : \E n \in PageLengths(fst[id].size) : FetchNext(id, n)
  \/ \E id \in DOMAIN fst : FetchError(id)
  \/ InputError
  \/ Unsubscribe

PipelineSpec == PipelineInit /\ [][PipelineNext]_vars

\* ------------------------------------------------------------ onLoading
\* obs.pipe(onLoading(sbj)): the operator function runs once, when the
\* observable is built, and pushes true (line 23; part_000 line 5).
Apply ==
  /\ ~applied
  /\ applied' = TRUE
  /\ sbjLog' = Append(sbjLog, TRUE)
  /\ UNCHANGED <<withTap, subs, nVal, engineVars, trackerVars>>

\* A subscription to the returned observable: tap, catchError and finalize
\* (lines 24-33) subscribe to the wrapped observable; none of them pushes a
\* value on subscription.
Subscribe ==
  /\ applied
  /\ Len(subs) < MaxSubs
  /\ subs' = Append(subs, "active")
  /\ UNCHANGED <<withTap, applied, sbjLog, nVal, engineVars, trackerVars>>

\* The wrapped observable emits a value to subscription s: tap, line 25
\* (part_000 has no tap).
Value(s) ==
  /\ subs[s] = "active"
  /\ nVal < MaxVals
  /\ nVal' = nVal + 1
  /\ sbjLog' = IF withTap THEN Append(sbjLog, TRUE) ELSE sbjLog
  /\ UNCHANGED <<withTap, applied, subs, engineVars, trackerVars>>

\* The wrapped observable completes for subscription s: finalize, lines 30-32.
Complete(s) ==
  /\ subs[s] = "active"
  /\ subs' = [subs EXCEPT ![s] = "completed"]
  /\ sbjLog' = Append(sbjLog, FALSE)
  /\ UNCHANGED <<withTap, applied, nVal, engineVars, trackerVars>>

\* The wrapped observable errors for subscription s: catchError pushes false
\* and rethrows (lines 26-29), then finalize pushes false (lines 30-32).
Error(s) ==
  /\ subs[s] = "active"
  /\ subs' = [subs EXCEPT ![s] = "errored"]
  /\ sbjLog' = IF withTap THEN sbjLog \o <<FALSE, FALSE>> ELSE Append(sbjLog, FALSE)
  /\ UNCHANGED <<withTap, applied, nVal, engineVars, trackerVars>>

\* Subscription s is unsubscribed: finalize, lines 30-32.
Cancel(s) ==
  /\ subs[s] = "active"
  /\ subs' = [subs EXCEPT ![s] = "unsubscribed"]
  /\ sbjLog' = Append(sbjLog, FALSE)
  /\ UNCHANGED <<withTap, applied, nVal, engineVars, trackerVars>>

LoadingInit ==
  /\ usePadNil = FALSE
  /\ InitEngine
  /\ startPage = 1
  /\ size = 0
  /\ InitTracker
  /\ withTap \in BOOLEAN
  /\ applied = FALSE
  /\ sbjLog = <<>>
  /\ subs = <<>>
  /\ nVal = 0

LoadingNext ==
  \/ Apply
  \/ Subscribe
  \/ \E s \in DOMAIN subs : Value(s)
  \/ \E s \in DOMAIN subs : Complete(s)
  \/ \E s \in DOMAIN subs : Error(s)
  \/ \E s \in DOMAIN subs : Cancel(s)

LoadingSpec == LoadingInit /\ [][LoadingNext]_vars

\* ------------------------------------------------------------ properties
\* The items of array a that fetch id delivered.
HasItemOf(a, id) == \E i \in 1..Len(a) : a[i] # Nil /\ a[i].f = id

HasNil(a) == \E i \in 1..Len(a) : a[i] = Nil

\* This step delivers descriptor p to the engine.
Delivers(p) ==
  /\ nDesc' = nDesc + 1
  /\ prevPage' = p.page
  /\ \E o \in SyncOutcomes(p.size) : DescriptorStep(p, o)

\* The buffer the filter of lines 124-126 sees when p arrives in this state.
BufferAtGate(p) == IF PageLeq(p.page, prevPage) THEN defaultItems' ELSE data

PassesGate(p) == p.size > 0 /\ Len(BufferAtGate(p)) % p.size = 0

\* This step dispatches a fetch (invokes loadMoreFn).
Dispatches == DOMAIN fst' # DOMAIN fst

\* C1 (admission gate): every fetch was dispatched for a descriptor with
\* size > 0 while the buffer length was an exact multiple of that size, and a
\* descriptor with size = 0 or with buffer.length % size # 0 dispatches no
\* fetch and produces no emission.
C1_DispatchedAtMultiple ==
  \A id \in DOMAIN fst : fst[id].size > 0 /\ fst[id].len % fst[id].size = 0

C1_RejectedIsSilent ==
  \A p \in Descriptors :
    (Delivers(p) /\ ~PassesGate(p)) => (~Dispatches /\ emissions' = emissions)

C1_AdmissionGate == []C1_DispatchedAtMultiple /\ [][C1_RejectedIsSilent]_vars

\* A fetch was dispatched on a buffer of several items, and a descriptor was
\* turned away (more descriptors delivered than admitted or emitted for).
C1_Witness ==
  /\ \E id \in DOMAIN fst : fst[id].len >= 2 /\ fst[id].size = 2
  /\ Len(data) % 2 = 1
  /\ nDesc > Cardinality(DOMAIN fst)

\* C2 (latest wins): a fetch that had not resolved when a later descriptor
\* was admitted is cancelled; its page is in no buffer and in no emission,
\* whenever it arrives.
C2_LatestWins ==
  \A id \in superseded :
    /\ fst[id].st \in {"cancelled", "dropped"}
    /\ ~HasItemOf(data, id)
    /\ \A k \in 1..Len(emissions) : ~HasItemOf(emissions[k], id)

\* A's page arrived after B was admitted and was dropped, and B's page is in
\* the buffer.
C2_Witness ==
  \E a \in superseded, b \in DOMAIN fst :
    /\ fst[a].st = "dropped"
    /\ b # a /\ fst[b].st = "ok" /\ fst[b].n > 0
    /\ HasItemOf(data, b)

\* C3 (failure isolation): when the fetch of an admitted descriptor fails the
\* output stays live and receives an empty array; a descriptor that passes
\* the gate after a failure is fetched and its snapshot is emitted.
C3_FailureStep ==
  \A id \in DOMAIN fst' :
    (fst'[id].st = "failed" /\ (id \notin DOMAIN fst \/ fst[id].st = "pending"))
      => /\ status' = "live"
         /\ Len(emissions') > Len(emissions)
         /\ Last(emissions') = <<>>

C3_AdmittedAfterFailure ==
  \A p \in Descriptors :
    ((\E id \in DOMAIN fst : fst[id].st = "failed") /\ Delivers(p) /\ PassesGate(p))
      => (Dispatches /\ Len(emissions') > Len(emissions) /\ status' = "live")

C3_FailureIsolation ==
  [](status = "live") /\ [][C3_FailureStep /\ C3_AdmittedAfterFailure]_vars

\* A fetch failed, and a fetch dispatched afterwards delivered its page.
C3_Witness ==
  \E a \in DOMAIN fst, b \in DOMAIN fst :
    /\ fst[a].st = "failed"
    /\ fst[b].st = "ok" /\ fst[b].n > 0
    /\ (a[1] < b[1] \/ (a[1] = b[1] /\ a[2] < b[2]))
    /\ Last(emissions) = data

\* C4 (state unchanged on error): a failing fetch leaves the buffer as it
\* was; when the fetches of one epoch are those of pages 1, 2 and 3, pages 1
\* and 3 succeed and page 2 fails, the buffer is page 1's items followed by
\* page 3's items.
C4_Pages123 ==
  LET p1 == <<epoch, 1>>  p2 == <<epoch, 2>>  p3 == <<epoch, 3>> IN
  ({id \in DOMAIN fst : id[1] = epoch} = {p1, p2, p3}
     /\ fst[p1].st = "ok" /\ fst[p2].st = "failed" /\ fst[p3].st = "ok")
    => data = Res(p1, fst[p1].n) \o Res(p3, fst[p3].n)

C4_FailureKeepsBuffer ==
  /\ \A id \in DOMAIN fst :
       (fst[id].st = "pending" /\ fst'[id].st = "failed") => data' = data
  /\ \A p \in Descriptors :
       (Delivers(p) /\ Dispatches /\ fst'[FetchId(epoch', p)].st = "failed")
         => data' = BufferAtGate(p)

C4_UnchangedOnError == []C4_Pages123 /\ [][C4_FailureKeepsBuffer]_vars

C4_Witness ==
  LET p1 == <<epoch, 1>>  p2 == <<epoch, 2>>  p3 == <<epoch, 3>> IN
  /\ {p1, p2, p3} \subseteq DOMAIN fst
  /\ fst[p1].st = "ok" /\ fst[p2].st = "failed" /\ fst[p3].st = "ok"
  /\ fst[p1].n = 2 /\ fst[p3].n = 2
  /\ Len(data) = 4

\* C5 (pages of an epoch), as claimed: the page fields of the descriptors
\* emitted since the last reset are startPage, startPage+1, ... in order.
C5_EpochPages ==
  \A i \in 1..Len(epochOut) : epochOut[i] = startPage + i - 1

\* C6 (no cross-epoch data), as claimed: every item of the buffer comes from
\* a fetch dispatched in the current epoch.
C6_NoCrossEpochData ==
  \A i \in 1..Len(data) : data[i] # Nil => data[i].f[1] = epoch

\* C7 (backpressure), as claimed: while a fetch of the current epoch is in
\* flight and the buffer holds placeholders, a descriptor that continues the
\* epoch is not admitted and starts no second fetch.
C7_Backpressure ==
  [][((\E id \in DOMAIN fst : id[1] = epoch /\ fst[id].st = "pending")
        /\ HasNil(data) /\ nDesc' = nDesc + 1 /\ epoch' = epoch)
      => ~Dispatches]_vars

\* C7 as amended: placeholders count in buffer.length, so a descriptor
\* arriving while a fetch is in flight is admitted whenever size > 0 and
\* buffer.length % size = 0; its admission unsubscribes the fetch in flight,
\* so at most one fetch is subscribed at any time.
C7_OneSubscribed ==
  Cardinality({id \in DOMAIN fst : fst[id].st = "pending"}) <= 1

C7_AdmissionCancels ==
  /\ \A p \in Descriptors : Delivers(p) => (Dispatches <=> PassesGate(p))
  /\ Dispatches =>
       \A id \in DOMAIN fst : fst[id].st = "pending" => fst'[id].st = "cancelled"

C7_SwitchNotBlock == []C7_OneSubscribed /\ [][C7_AdmissionCancels]_vars

\* In one epoch, a fetch was cancelled by the admission of the next page
\* while the buffer still held the placeholders, and that page is in flight.
C7_Witness ==
  \E a \in DOMAIN fst, b \in DOMAIN fst :
    /\ a[1] = epoch /\ b[1] = epoch /\ a[2] < b[2]
    /\ fst[a].st = "cancelled" /\ fst[b].st = "pending"
    /\ HasNil(data)

\* C8 (output guarantee): an admitted descriptor first yields the buffer it
\* was admitted on, before anything its fetch delivers, also when the fetch
\* settles during subscription; when the subscribed fetch settles, by a page
\* or by an error, one more array is emitted.
C8_SnapshotFirst ==
  \A p \in Descriptors :
    (Delivers(p) /\ Dispatches) =>
      /\ Len(emissions') > Len(emissions)
      /\ emissions'[Len(emissions) + 1] = BufferAtGate(p)
      /\ LET id == FetchId(epoch', p) IN
           \/ fst'[id].st = "pending" /\ Len(emissions') = Len(emissions) + 1
           \/ fst'[id].st = "ok" /\ Len(emissions') = Len(emissions) + 2
                /\ Last(emissions') = data'
           \/ fst'[id].st = "failed" /\ Len(emissions') = Len(emissions) + 2
                /\ Last(emissions') = <<>>

C8_SettleEmits ==
  \A id \in DOMAIN fst :
    (fst[id].st = "pending" /\ fst'[id].st \in {"ok", "failed"}) =>
      /\ Len(emissions') = Len(emissions) + 1
      /\ Last(emissions') = IF fst'[id].st = "ok" THEN data' ELSE <<>>

C8_OutputGuarantee == [][C8_SnapshotFirst /\ C8_SettleEmits]_vars

\* The first descriptor was admitted on the placeholders and its page came.
C8_Witness ==
  /\ Len(emissions) = 2
  /\ emissions[1] = ArrayFromNil(2)
  /\ emissions[2] = Res(<<1, 1>>, 2)
  /\ fst[<<1, 1>>].st = "ok"

\* C9 (accumulation): a page res delivered to the engine makes the buffer
\* the non-placeholder items of the old buffer followed by res, and that is
\* emitted; size 2 with padding, page 1 = [a,b], page 2 = [c,d] in sequence
\* emits [nil,nil], [a,b], [a,b], [a,b,c,d].
C9_AccumulateStep ==
  /\ \A id \in DOMAIN fst :
       (fst[id].st = "pending" /\ fst'[id].st = "ok") =>
         /\ data' = SelectSeq(data, notNil) \o Res(id, fst'[id].n)
         /\ Last(emissions') = data'
  /\ \A p \in Descriptors :
       LET id == FetchId(epoch', p) IN
       (Delivers(p) /\ Dispatches /\ fst'[id].st = "ok") =>
         /\ data' = SelectSeq(BufferAtGate(p), notNil) \o Res(id, fst'[id].n)
         /\ Last(emissions') = data'

C9_Example ==
  LET p1 == <<1, 1>>  p2 == <<1, 2>> IN
  (usePadNil /\ epoch = 1 /\ DOMAIN fst = {p1, p2}
     /\ fst[p1] = [size |-> 2, len |-> 2, st |-> "ok", n |-> 2]
     /\ fst[p2].size = 2 /\ fst[p2].st = "ok" /\ fst[p2].n = 2)
    => emissions = << <<Nil, Nil>>, Res(p1, 2), Res(p1, 2), Res(p1, 2) \o Res(p2, 2) >>

C9_Accumulation == []C9_Example /\ [][C9_AccumulateStep]_vars

C9_Witness ==
  /\ usePadNil /\ epoch = 1 /\ DOMAIN fst = {<<1, 1>>, <<1, 2>>}
  /\ fst[<<1, 1>>].st = "ok" /\ fst[<<1, 2>>].st = "ok"
  /\ Len(emissions) = 4
  /\ Len(data) = 4 /\ ~HasNil(data)

\* C10 (descriptor fields), as claimed: every emitted descriptor carries the
\* size given at construction and the page the counter had when it was built
\* (the counter has advanced by one since the last descriptor).
C10_TrackerOwnsPageAndSize ==
  /\ \A i \in 1..Len(out) : out[i].size = size
  /\ Len(out) > 0 =>
       /\ Last(out).page = page - 1
       /\ \A k \in (DOMAIN params) \ {"page", "size"} : Last(out)[k] = params[k]

\* C11 (placeholders): the buffer holds placeholders only as the untouched
\* template of the epoch, which is as long as the size of the descriptor
\* that started the epoch, and only while no fetch of the epoch has
\* delivered a page; a delivered page leaves no placeholder in the buffer.
C11_OnlyTemplate ==
  HasNil(data) =>
    /\ usePadNil
    /\ data = defaultItems
    /\ \A i \in 1..Len(data) : data[i] = Nil
    /\ \E id \in DOMAIN fst :
         id[1] = epoch /\ fst[id].size = Len(data) /\ fst[id].len = Len(data)
    /\ \A id \in DOMAIN fst : id[1] = epoch => fst[id].st # "ok"

C11_PageClearsPlaceholders ==
  \A id \in DOMAIN fst' :
    (fst'[id].st = "ok" /\ (id \notin DOMAIN fst \/ fst[id].st = "pending"))
      => ~HasNil(data')

C11_Placeholders == []C11_OnlyTemplate /\ [][C11_PageClearsPlaceholders]_vars

\* A page was delivered in the first epoch; the second epoch has started and
\* its buffer is the template of two placeholders, the fetch still pending.
C11_Witness ==
  /\ epoch = 2
  /\ \E a \in DOMAIN fst : a[1] = 1 /\ fst[a].st = "ok" /\ fst[a].n > 0
  /\ \E b \in DOMAIN fst : b[1] = 2 /\ fst[b].st = "pending"
  /\ data = <<Nil, Nil>>

\* The template of an epoch started by p: size placeholders when padding is
\* enabled and size > 0, the empty sequence otherwise (lines 115-118).
Template(p) ==
  IF usePadNil /\ p.size > 0 THEN [i \in 1..p.size |-> Nil] ELSE <<>>

\* C12 (idempotence of epoch reset): every descriptor that starts an epoch
\* leaves the buffer equal to the template of its size, whatever the buffer
\* held before: the template is what the filter sees and what is emitted as
\* the snapshot, and it is the buffer after the step unless the fetch has
\* already delivered its page, which is then appended to the (placeholder
\* free) template. So two consecutive epoch starts of one size give the same
\* buffer.
C12_ResetStep ==
  \A p \in Descriptors :
    (Delivers(p) /\ PageLeq(p.page, prevPage)) =>
      LET t  == Template(p)
          id == <<epoch', p.page>>
      IN /\ epoch' = epoch + 1
         /\ defaultItems' = t
         /\ IF PassesGate(p)
            THEN /\ id \in DOMAIN fst' /\ fst'[id].len = Len(t)
                 /\ Len(emissions') > Len(emissions)
                 /\ emissions'[Len(emissions) + 1] = t
                 /\ IF fst'[id].st = "ok"
                    THEN data' = Res(id, fst'[id].n)
                    ELSE data' = t
            ELSE data' = t /\ emissions' = emissions

C12_EpochResetIdempotent == [][C12_ResetStep]_vars

\* A page of two items was delivered, then two epoch starts followed one
\* another, both with a failing fetch: the buffer is the template, and the
\* same template was emitted as the snapshot of both.
C12_Witness ==
  /\ nDesc = 3 /\ epoch = 3 /\ size = 2
  /\ DOMAIN fst = {<<1, 1>>, <<2, 1>>, <<3, 1>>}
  /\ fst[<<1, 1>>].st = "ok" /\ fst[<<1, 1>>].n = 2
  /\ fst[<<2, 1>>].st = "failed" /\ fst[<<3, 1>>].st = "failed"
  /\ data = Template([page |-> 1, size |-> 2])
  /\ emissions[3] = data /\ emissions[5] = data

\* C15 (admission is the sole trigger of cancellation): a fetch goes from
\* pending to cancelled only in a step that delivers a descriptor passing
\* the filter and dispatches its fetch; a delivered descriptor that fails
\* the filter leaves the whole fetch table, hence the pending fetch, as it
\* was; no other step (a page arriving, an error, time passing) cancels.
C15_CancelNeedsAdmission ==
  \A id \in DOMAIN fst :
    (fst[id].st = "pending" /\ fst'[id].st = "cancelled") =>
      /\ nDesc' = nDesc + 1
      /\ Dispatches
      /\ \E new \in DOMAIN fst' \ DOMAIN fst :
           /\ new = <<epoch', prevPage'>>
           /\ PassesGate([page |-> prevPage', size |-> fst'[new].size])

C15_RejectedKeepsPending ==
  \A p \in Descriptors :
    (nDesc' = nDesc + 1 /\ prevPage' = p.page /\ ~PassesGate(p) /\ Delivers(p))
      => (fst' = fst /\ InFlight(fst') = InFlight(fst))

C15_SoleTrigger == [][C15_CancelNeedsAdmission /\ C15_RejectedKeepsPending]_vars

\* The fetch of page 1 is pending and still subscribed after a second
\* descriptor, of page 2, was delivered and rejected.
C15_Witness ==
  /\ nDesc = 2 /\ prevPage = 2 /\ status = "live"
  /\ DOMAIN fst = {<<1, 1>>}
  /\ Subscribed(fst, <<1, 1>>)

\* C16 (ordering of useScrolling): an event of reset$ or scroll$ that
\* arrives when both inputs have emitted (the event itself included)
\* appends exactly one descriptor to the output within the same step, after
\* all earlier descriptors, and that descriptor carries every field of the
\* payload of the most recent reset event; an event that arrives before
\* that emits nothing, then or later. The output never holds more
\* descriptors than events have occurred.
C16_EventStep ==
  nEv' = nEv + 1 =>
    IF hasReset' /\ hasScroll'
    THEN /\ Len(out') = Len(out) + 1
         /\ SubSeq(out', 1, Len(out)) = out
         /\ DOMAIN Last(out') = DOMAIN params' \cup {"page", "size"}
         /\ \A k \in DOMAIN params' : Last(out')[k] = params'[k]
    ELSE out' = out

C16_OrderPreserved == [](Len(out) <= nEv) /\ [][C16_EventStep]_vars

\* reset$ {q: 1}, scroll$, reset$ {q: 2}, scroll$: three descriptors, in the
\* order of the three events that triggered them, with the payload of the
\* reset event that was the most recent one at each of them.
C16_Witness ==
  /\ nEv = 4 /\ Len(out) = 3
  /\ params = [q |-> 2]
  /\ out[1] = [page |-> startPage, size |-> size, q |-> 1]
  /\ out[2] = [page |-> startPage, size |-> size, q |-> 2]
  /\ out[3] = [page |-> startPage + 1, size |-> size, q |-> 2]

\* C19 (end of data), for a source that stamps every descriptor with one
\* size: the buffer length is off a multiple of size only after a fetch of
\* the current epoch delivered a short page, and from then on every step
\* that stays in the epoch dispatches no fetch, emits nothing and leaves
\* the buffer alone; only a descriptor with page <= prevPage, which starts
\* a new epoch, gets a fetch dispatched again.
C19_ShortPage ==
  Len(data) % size # 0 =>
    \E id \in DOMAIN fst :
      /\ id[1] = epoch /\ fst[id].st = "ok" /\ fst[id].n % size # 0
      /\ \A other \in DOMAIN fst : other[1] = epoch => other[2] <= id[2]

C19_StuckStep ==
  (Len(data) % size # 0 /\ epoch' = epoch) =>
    (~Dispatches /\ fst' = fst /\ emissions' = emissions /\ data' = data)

C19_NewEpochStep ==
  (Len(data) % size # 0 /\ Dispatches) =>
    (epoch' = epoch + 1 /\ PageLeq(prevPage', prevPage))

C19_EndOfData == []C19_ShortPage /\ [][C19_StuckStep /\ C19_NewEpochStep]_vars

\* Size 2: page 1 delivered a single item, then the descriptors of pages 2
\* and 3 were both rejected.
C19_Witness ==
  /\ size = 2 /\ nDesc = 3 /\ prevPage = 3 /\ epoch = 1
  /\ DOMAIN fst = {<<1, 1>>}
  /\ fst[<<1, 1>>].st = "ok" /\ fst[<<1, 1>>].n = 1
  /\ Len(data) = 1 /\ Len(emissions) = 2

\* C13 (upstream failure): once reset$ or scroll$ has errored the output
\* observable has terminated with the error and no fetch is subscribed; from
\* then on no descriptor is emitted by useScrolling, no fetch is dispatched,
\* the output stays errored and nothing is emitted, even when a fetch that
\* was in flight settles afterwards.
C13_Terminated ==
  upstream = "errored" =>
    (status = "errored" /\ \A id \in DOMAIN fst : ~Subscribed(fst, id))

C13_SilentStep ==
  upstream = "errored" =>
    /\ out' = out
    /\ DOMAIN fst' = DOMAIN fst
    /\ emissions' = emissions
    /\ status' = "errored"

C13_UpstreamError == []C13_Terminated /\ [][C13_SilentStep]_vars

\* An input errored while the only fetch was in flight; the fetch settled
\* afterwards and its notification was dropped.
C13_Witness ==
  /\ upstream = "errored" /\ status = "errored"
  /\ nDesc = 1 /\ Len(out) = 1
  /\ DOMAIN fst = {<<1, 1>>} /\ fst[<<1, 1>>].st = "dropped"
  /\ Len(emissions) = 1

\* C14 (teardown): once the output has been unsubscribed no fetch is
\* subscribed any more, and from then on the buffer and the template are
\* never modified, no fetch is dispatched and nothing is emitted, even when
\* the fetch that was in flight settles afterwards.
C14_Released ==
  status = "closed" => \A id \in DOMAIN fst : ~Subscribed(fst, id)

C14_QuietStep ==
  status = "closed" =>
    /\ data' = data
    /\ defaultItems' = defaultItems
    /\ emissions' = emissions
    /\ DOMAIN fst' = DOMAIN fst
    /\ status' = "closed"

C14_Teardown == []C14_Released /\ [][C14_QuietStep]_vars

\* The output was unsubscribed while the only fetch was in flight; the fetch
\* settled afterwards and its notification was dropped.
C14_Witness ==
  /\ status = "closed" /\ upstream = "closed"
  /\ nDesc = 1
  /\ DOMAIN fst = {<<1, 1>>} /\ fst[<<1, 1>>].st = "dropped"
  /\ Len(emissions) = 1 /\ data = defaultItems

\* This step emits a descriptor triggered by a reset event, or the very
\* first descriptor; this step emits a later descriptor triggered by a next
\* event.
ResetTriggered == Len(out') = Len(out) + 1 /\ Len(epochOut') = 1

NextTriggered == Len(out') = Len(out) + 1 /\ Len(epochOut') > 1

\* C18 (epoch test against reset events): in the composition the engine
\* takes the epoch-start branch of its tap exactly for the descriptors
\* triggered by a reset event and for the very first descriptor: each of
\* these reinitialises the buffer to the template, and no later descriptor
\* triggered by a next event does.
C18_EpochStep ==
  /\ ResetTriggered =>
       (epoch' = epoch + 1 /\ defaultItems' = Template(Last(out')) /\ data' = defaultItems')
  /\ NextTriggered =>
       (epoch' = epoch /\ defaultItems' = defaultItems /\ data' = data)

C18_EpochTestMatchesResets == [][C18_EpochStep]_vars

\* The fetches of epoch ep whose page was delivered to the engine.
OkPages(f, ep) == {id \in DOMAIN f : id[1] = ep /\ f[id].st = "ok"}

\* The pages of the fetches ids, concatenated in increasing page order.
RECURSIVE ConcatPages(_, _)
ConcatPages(f, ids) ==
  IF ids = {} THEN <<>>
  ELSE LET m == CHOOSE x \in ids : \A y \in ids : x[2] <= y[2]
       IN Res(m, f[m].n) \o ConcatPages(f, ids \ {m})

\* C20 (buffer content): in every reachable state of the composition the
\* buffer without its placeholders is the concatenation, in increasing page
\* order, of the pages of exactly the fetches of the current epoch that
\* delivered their page (a cancelled fetch delivers none); so every page
\* occurs at most once and in order.
C20_BufferIsEpochPages ==
  SelectSeq(data, notNil) = ConcatPages(fst, OkPages(fst, epoch))

\* Subscription s has ended: completed, errored or unsubscribed.
Ended(s) == subs[s] # "active"

\* C17 (loading flag): at the start of every subscription to the observable
\* built with onLoading, a re-subscription included, the value last pushed
\* to the subject is true; and once every subscription has ended the value
\* last pushed is false.
C17_TrueAtStart ==
  Len(subs') = Len(subs) + 1 => (sbjLog' # <<>> /\ Last(sbjLog') = TRUE)

C17_FalseAtEnd ==
  (subs # <<>> /\ \A s \in DOMAIN subs : Ended(s)) =>
    (sbjLog # <<>> /\ Last(sbjLog) = FALSE)

C17_LoadingFlag == []C17_FalseAtEnd /\ [][C17_TrueAtStart]_vars

====
